---- MODULE Spec2Model ----
(***************************************************************************)
(* State-machine model of colorchecker_generator.py: the module-level      *)
(* start-up script (screen query, existence check, sheet load, table       *)
(* indexing, grid layout, widget layout, app.run) followed by the Dash     *)
(* session in which every widget event runs the update_figure callback.    *)
(*                                                                         *)
(* Encodings.  Python None is the empty tuple and a present value v is     *)
(* <<v>>.  Python lists are sequences; list index i is sequence index i+1. *)
(* The ratio floats 0.1, 0.2, ..., 1.0 of the two ratio dropdowns are      *)
(* written as their number of tenths 1..10; the float arithmetic done on   *)
(* them is modelled by IntOfProduct and MarkerSize.                        *)
(***************************************************************************)
EXTENDS Integers, Sequences, FiniteSets, TLC

VARIABLES
    pc,                         \* position of the start-up script / "serving" / "crashed"
    error,                      \* the uncaught exception that ended start-up, or None
    monitors,                   \* environment: what get_monitors() returns
    file,                       \* environment: the workbook at excel_file, None when absent
    screen_width, screen_height,
    df,                         \* the loaded sheet, None before read_excel
    colorchecker_versions, color_spaces,
    data,                       \* data[version][color_space] = rows of the block
    x, y,                       \* grid positions
    version_dropdown, color_space_dropdown, screen_ratio_dropdown,
    color_square_size_dropdown, show_labels_radio,     \* widget values
    figure,                     \* figure shown by color-checker-plot, None before the first callback
    callback_error              \* exception raised by the last callback run, "none" when it returned

vars == <<pc, error, monitors, file, screen_width, screen_height, df,
          colorchecker_versions, color_spaces, data, x, y,
          version_dropdown, color_space_dropdown, screen_ratio_dropdown,
          color_square_size_dropdown, show_labels_radio, figure, callback_error>>

None == <<>>
Some(v) == <<v>>
Range(s) == {s[i] : i \in 1..Len(s)}
Min(a, b) == IF a < b THEN a ELSE b

(***************************************************************************)
(* Bounds of the explored input family.                                    *)
(***************************************************************************)
MaxSeed == 1                    \* sheets are filled from seeds 0..MaxSeed

(***************************************************************************)
(* Program constants.                                                      *)
(***************************************************************************)
excel_file == "ColorChecker_RGB_and_spectra.xlsx"
version_row_indices == <<1, 30, 59>>
start_rows == <<5, 34, 63>>
NumColorSpaces == 19
FirstSpaceCol == 8
SpaceColStep == 3
BlockRows == 24
n_rows == 4
n_cols == 6
NumSwatches == 24
MarkerScale == 400
RatioOptions == 1..10           \* 10%, 20%, ..., 100%
DefaultScreenRatio == 6
DefaultSquareRatio == 5
DefaultShowLabels == TRUE

col_start_indices == [i \in 1..NumColorSpaces |-> FirstSpaceCol + (i - 1) * SpaceColStep]

(***************************************************************************)
(* The environment: monitors and workbooks.  A workbook's RGB_8_bit sheet  *)
(* is a record of its shape and of what fills its cells; Cell gives the    *)
(* value pandas returns for a cell inside the sheet.  Numeric cells hold   *)
(* (seed + 7 r + 3 c) mod 256, except the one cell named by bad, which     *)
(* holds the out-of-range value bad[3].                                    *)
(***************************************************************************)
Monitor(w, h) == [width |-> w, height |-> h]

VersionLabel(i) == "ColorChecker v" \o ToString(i)
SpaceLabel(i) == "space " \o ToString(i)

IsVersionCell(r, c) == c = 0 /\ r \in Range(version_row_indices)
IsSpaceCell(r, c) == r = 1 /\ c \in Range(col_start_indices)

Cell(sheet, r, c) ==
    IF IsVersionCell(r, c)
    THEN VersionLabel(CHOOSE i \in 1..Len(version_row_indices) : version_row_indices[i] = r)
    ELSE IF IsSpaceCell(r, c)
    THEN SpaceLabel(CHOOSE i \in 1..NumColorSpaces : col_start_indices[i] = c)
    ELSE IF sheet.bad # None /\ sheet.bad[1] = r /\ sheet.bad[2] = c
    THEN sheet.bad[3]
    ELSE (sheet.seed + 7 * r + 3 * c) % 256

Sheet(nr, nc, s, b) == [nrows |-> nr, ncols |-> nc, seed |-> s, bad |-> b]

\* df.iloc[r, c]: a scalar read raises IndexError outside the sheet.
InSheet(sheet, r, c) == r < sheet.nrows /\ c < sheet.ncols

\* Mutant of Slice: the slice ends one row early (start_row-1+23).
Slice_short(sheet, r0, c0) ==
    [base |-> sheet, r0 |-> r0, c0 |-> c0,
     nr |-> IF sheet.nrows > r0 THEN Min(BlockRows - 1, sheet.nrows - r0) ELSE 0,
     nc |-> IF sheet.ncols > c0 THEN Min(3, sheet.ncols - c0) ELSE 0]

\* df.iloc[r0:r0+24, c0:c0+3].to_numpy(): a slice is clipped to the sheet.  The
\* array is kept as the window it is of the sheet (origin and shape); Rows gives
\* its contents.
Slice(sheet, r0, c0) ==
    [base |-> sheet, r0 |-> r0, c0 |-> c0,
     nr |-> IF sheet.nrows > r0 THEN Min(BlockRows, sheet.nrows - r0) ELSE 0,
     nc |-> IF sheet.ncols > c0 THEN Min(3, sheet.ncols - c0) ELSE 0]

Row(a, i) == [j \in 1..a.nc |-> Cell(a.base, a.r0 + i - 1, a.c0 + j - 1)]
Rows(a) == [i \in 1..a.nr |-> Row(a, i)]

\* A dict built by successive assignment keeps, for a repeated key, the last value.
LastIndex(labels, l) ==
    CHOOSE i \in 1..Len(labels) :
        labels[i] = l /\ \A j \in (i + 1)..Len(labels) : labels[j] # l

\* Lines 44-50: data[version][color_space] = the block's rows.
TableIndexer(sheet, versions, spaces) ==
    [v \in Range(versions) |->
        [cs \in Range(spaces) |->
            LET start_row == start_rows[LastIndex(versions, v)]
                cs_idx == LastIndex(spaces, cs) - 1
                col_base == FirstSpaceCol + cs_idx * SpaceColStep
            IN  Slice(sheet, start_row - 1, col_base)]]

\* Mutant of GridRow: the rows are not flipped, so index 0 lands in the bottom row.
GridRow_unflipped(i) == i \div n_cols

\* Lines 53-59.
GridRow(i) == n_rows - 1 - (i \div n_cols)
GridCol(i) == i % n_cols
GridX == [k \in 1..NumSwatches |-> GridCol(k - 1)]
GridY == [k \in 1..NumSwatches |-> GridRow(k - 1)]

(***************************************************************************)
(* Float arithmetic of create_figure on the ratio k/10.                    *)
(*                                                                         *)
(* int(screen * ratio), lines 89-90: the double product truncated.  The    *)
(* double nearest to k/10 times an integer below 2^53 rounds to a double   *)
(* whose integer part is floor(screen*k/10), with one exception: the       *)
(* double 0.7 lies 0.4 ulp below 7/10, so when screen*7/10 is an integer n *)
(* in the upper quarter of its binade (n > 1.75 * 2^e) the product rounds  *)
(* to the double just below n and truncates to n - 1 (int(1440 * 0.7) is   *)
(* 1007).                                                                  *)
(***************************************************************************)
MaxBinade == 20

Pow2(e) == 2 ^ e

InUpperQuarter(n) == \E e \in 0..MaxBinade : 7 * Pow2(e) < 4 * n /\ n < Pow2(e + 1)

\* Mutants of IntOfProduct: round() in place of int(), and the ratio left out.
IntOfProduct_rounded(screen, k) == (screen * k + 5) \div 10
IntOfProduct_unscaled(screen, k) == screen

IntOfProduct(screen, k) ==
    LET exact == (screen * k) \div 10
    IN  IF k = 7 /\ (screen * k) % 10 = 0 /\ InUpperQuarter(exact) THEN exact - 1 ELSE exact

\* selected_square_ratio*400, line 78: the product is the exact double 40 k.
MarkerSize(k) == (k * MarkerScale) \div 10

(***************************************************************************)
(* Helper functions and the Figure Builder, lines 62-99.                   *)
(***************************************************************************)
\* data[version][color_space] raises KeyError for an absent key (None included).
HasKey(version, color_space) ==
    /\ version # None /\ version[1] \in DOMAIN data
    /\ color_space # None /\ color_space[1] \in DOMAIN data[version[1]]

\* "for r, g, b in rgb_array" raises ValueError for a row that has not three values.
Unpacks(rgb_array) == rgb_array.nr = 0 \/ rgb_array.nc = 3

\* f'rgb({r},{g},{b})'
RgbString(row) ==
    "rgb(" \o ToString(row[1]) \o "," \o ToString(row[2]) \o "," \o ToString(row[3]) \o ")"

\* f'{int(r)} {int(g)} {int(b)}'; the cells of the model are integers, which int() keeps.
LabelString(row) == ToString(row[1]) \o " " \o ToString(row[2]) \o " " \o ToString(row[3])

get_colors(version, color_space) ==
    LET rgb_array == data[version][color_space]
    IN  [i \in 1..rgb_array.nr |-> RgbString(Row(rgb_array, i))]

\* Mutant of get_text_labels: the channels are written in the order B G R.
get_text_labels_bgr(version, color_space) ==
    LET rgb_array == data[version][color_space]
    IN  [i \in 1..rgb_array.nr |->
            LabelString(<<Row(rgb_array, i)[3], Row(rgb_array, i)[2], Row(rgb_array, i)[1]>>)]

get_text_labels(version, color_space) ==
    LET rgb_array == data[version][color_space]
    IN  [i \in 1..rgb_array.nr |-> LabelString(Row(rgb_array, i))]

Raised(e) == [error |-> e, figure |-> None]
Returned(fig) == [error |-> "none", figure |-> Some(fig)]

\* Mutant of create_figure: the marker size is taken from the label flag when it
\* is set (True*400), as if the two last arguments had been exchanged.
create_figure_swapped(version, color_space, selected_ratio, show_labels, selected_square_ratio) ==
    IF selected_square_ratio = None THEN Raised("TypeError")
    ELSE IF ~HasKey(version, color_space) THEN Raised("KeyError")
    ELSE IF ~Unpacks(data[version[1]][color_space[1]]) THEN Raised("ValueError")
    ELSE IF selected_ratio = None THEN Raised("TypeError")
    ELSE Returned(
        [x |-> x,
         y |-> y,
         mode |-> IF show_labels[1] THEN "markers+text" ELSE "markers",
         marker |-> [size |-> IF show_labels[1]
                                 THEN MarkerScale
                                 ELSE MarkerSize(selected_square_ratio[1]),
                     symbol |-> "square",
                     color |-> get_colors(version[1], color_space[1])],
         text |-> IF show_labels[1]
                  THEN Some(get_text_labels(version[1], color_space[1]))
                  ELSE None,
         textposition |-> "middle center",
         textfont |-> [color |-> "white", size |-> 15],
         hoverinfo |-> "none",
         layout |-> [width |-> IntOfProduct(screen_width, selected_ratio[1]),
                     height |-> IntOfProduct(screen_height, selected_ratio[1]),
                     plot_bgcolor |-> "black",
                     paper_bgcolor |-> "black",
                     showlegend |-> FALSE]])

\* Arguments are optional values (None or <<v>>); the exceptions come in the order in
\* which the body evaluates its expressions: marker size (78), get_colors (80),
\* get_text_labels (82), width and height (89-90).
create_figure(version, color_space, selected_ratio, show_labels, selected_square_ratio) ==
    IF selected_square_ratio = None THEN Raised("TypeError")
    ELSE IF ~HasKey(version, color_space) THEN Raised("KeyError")
    ELSE IF ~Unpacks(data[version[1]][color_space[1]]) THEN Raised("ValueError")
    ELSE IF selected_ratio = None THEN Raised("TypeError")
    ELSE Returned(
        [x |-> x,
         y |-> y,
         mode |-> IF show_labels[1] THEN "markers+text" ELSE "markers",
         marker |-> [size |-> MarkerSize(selected_square_ratio[1]),
                     symbol |-> "square",
                     color |-> get_colors(version[1], color_space[1])],
         text |-> IF show_labels[1]
                  THEN Some(get_text_labels(version[1], color_space[1]))
                  ELSE None,
         textposition |-> "middle center",
         textfont |-> [color |-> "white", size |-> 15],
         hoverinfo |-> "none",
         layout |-> [width |-> IntOfProduct(screen_width, selected_ratio[1]),
                     height |-> IntOfProduct(screen_height, selected_ratio[1]),
                     plot_bgcolor |-> "black",
                     paper_bgcolor |-> "black",
                     showlegend |-> FALSE]])

\* Lines 192-193.  The parameters carry the names the source gives them; the callback
\* is invoked with the Inputs in their declared order (lines 186-190), so the fourth
\* parameter receives the radio's value and the fifth the square-size dropdown's.
update_figure(selected_version, selected_color_space, selected_screen_ratio, selected_color_square_ratio, show_labels) ==
    create_figure(selected_version, selected_color_space, selected_screen_ratio,
                  selected_color_square_ratio, show_labels)

(***************************************************************************)
(* Start-up: the module-level script, one action per block of statements.  *)
(***************************************************************************)
Crash(type, message) ==
    /\ pc' = "crashed"
    /\ error' = Some([type |-> type, message |-> message])

\* Lines 25-27.
QueryScreen ==
    /\ pc = "query_screen"
    /\ IF monitors = <<>>
       THEN /\ Crash("IndexError", "list index out of range")
            /\ UNCHANGED <<screen_width, screen_height>>
       ELSE /\ screen_width' = monitors[1].width
            /\ screen_height' = monitors[1].height
            /\ pc' = "check_file"
            /\ UNCHANGED error
    /\ UNCHANGED <<monitors, file, df, colorchecker_versions, color_spaces, data, x, y,
                   version_dropdown, color_space_dropdown, screen_ratio_dropdown,
                   color_square_size_dropdown, show_labels_radio, figure, callback_error>>

\* Mutant of CheckFile: the existence check is left out.
CheckFile_unchecked ==
    /\ pc = "check_file"
    /\ pc' = "read_excel"
    /\ UNCHANGED <<error, monitors, file, screen_width, screen_height, df,
                   colorchecker_versions, color_spaces, data, x, y,
                   version_dropdown, color_space_dropdown, screen_ratio_dropdown,
                   color_square_size_dropdown, show_labels_radio, figure, callback_error>>

\* Lines 30-32.
CheckFile ==
    /\ pc = "check_file"
    /\ IF file = None
       THEN Crash("FileNotFoundError",
                  "Excel file '" \o excel_file
                      \o "' not found. Please place it in the project directory.")
       ELSE pc' = "read_excel" /\ UNCHANGED error
    /\ UNCHANGED <<monitors, file, screen_width, screen_height, df,
                   colorchecker_versions, color_spaces, data, x, y,
                   version_dropdown, color_space_dropdown, screen_ratio_dropdown,
                   color_square_size_dropdown, show_labels_radio, figure, callback_error>>

\* Line 33.
ReadExcel ==
    /\ pc = "read_excel"
    /\ IF file = None
       THEN /\ Crash("FileNotFoundError",
                      "[Errno 2] No such file or directory: '" \o excel_file \o "'")
            /\ UNCHANGED df
       ELSE /\ df' = file
            /\ pc' = "index"
            /\ UNCHANGED error
    /\ UNCHANGED <<monitors, file, screen_width, screen_height,
                   colorchecker_versions, color_spaces, data, x, y,
                   version_dropdown, color_space_dropdown, screen_ratio_dropdown,
                   color_square_size_dropdown, show_labels_radio, figure, callback_error>>

\* Lines 36-50.  The two label reads are scalar reads, which fail outside the sheet;
\* the block reads are slices, which are clipped.
VersionsReadable(sheet) == \A i \in 1..Len(version_row_indices) : InSheet(sheet, version_row_indices[i], 0)
SpacesReadable(sheet) == \A i \in 1..NumColorSpaces : InSheet(sheet, 1, col_start_indices[i])
ReadVersions(sheet) == [i \in 1..Len(version_row_indices) |-> Cell(sheet, version_row_indices[i], 0)]
ReadSpaces(sheet) == [i \in 1..NumColorSpaces |-> Cell(sheet, 1, col_start_indices[i])]

IndexTable ==
    /\ pc = "index"
    /\ LET sheet == df[1] IN
       IF ~VersionsReadable(sheet)
       THEN /\ Crash("IndexError", "single positional indexer is out-of-bounds")
            /\ UNCHANGED <<colorchecker_versions, color_spaces, data>>
       ELSE IF ~SpacesReadable(sheet)
       THEN /\ Crash("IndexError", "single positional indexer is out-of-bounds")
            /\ colorchecker_versions' = ReadVersions(sheet)
            /\ UNCHANGED <<color_spaces, data>>
       ELSE /\ colorchecker_versions' = ReadVersions(sheet)
            /\ color_spaces' = ReadSpaces(sheet)
            /\ data' = TableIndexer(sheet, ReadVersions(sheet), ReadSpaces(sheet))
            /\ pc' = "grid"
            /\ UNCHANGED error
    /\ UNCHANGED <<monitors, file, screen_width, screen_height, df, x, y,
                   version_dropdown, color_space_dropdown, screen_ratio_dropdown,
                   color_square_size_dropdown, show_labels_radio, figure, callback_error>>

\* Lines 53-59.
GridPositions ==
    /\ pc = "grid"
    /\ x' = GridX
    /\ y' = GridY
    /\ pc' = "layout"
    /\ UNCHANGED <<error, monitors, file, screen_width, screen_height, df,
                   colorchecker_versions, color_spaces, data,
                   version_dropdown, color_space_dropdown, screen_ratio_dropdown,
                   color_square_size_dropdown, show_labels_radio, figure, callback_error>>

\* Lines 102-182 and 196-197: the widgets get their initial values and the app runs.
Layout ==
    /\ pc = "layout"
    /\ version_dropdown' = Some(colorchecker_versions[1])
    /\ color_space_dropdown' = Some(color_spaces[1])
    /\ screen_ratio_dropdown' = Some(DefaultScreenRatio)
    /\ color_square_size_dropdown' = Some(DefaultSquareRatio)
    /\ show_labels_radio' = Some(DefaultShowLabels)
    /\ pc' = "serving"
    /\ UNCHANGED <<error, monitors, file, screen_width, screen_height, df,
                   colorchecker_versions, color_spaces, data, x, y, figure, callback_error>>

(***************************************************************************)
(* The session.  A widget event sets that widget's value and runs the      *)
(* callback on the five current values, in the order of the Inputs (lines  *)
(* 186-190).  A callback that raises leaves the displayed figure as it is. *)
(***************************************************************************)
RunCallback(version, color_space, screen_ratio, show, square) ==
    \E r \in {update_figure(version, color_space, screen_ratio, show, square)} :
        /\ callback_error' = r.error
        /\ figure' = IF r.error = "none" THEN r.figure ELSE figure

\* Mutant of Fixed: the grid positions are appended again on every callback run.
Fixed_regrid ==
    /\ x' = x \o GridX
    /\ y' = y \o GridY
    /\ UNCHANGED <<pc, error, monitors, file, screen_width, screen_height, df,
                   colorchecker_versions, color_spaces, data>>

\* No statement of update_figure, create_figure or the two helpers assigns a global.
Fixed == UNCHANGED <<pc, error, monitors, file, screen_width, screen_height, df,
                     colorchecker_versions, color_spaces, data, x, y>>

\* The page is loaded (or reloaded): the widgets show their initial values and Dash
\* runs the callback once.
PageLoad ==
    /\ pc = "serving"
    /\ version_dropdown' = Some(colorchecker_versions[1])
    /\ color_space_dropdown' = Some(color_spaces[1])
    /\ screen_ratio_dropdown' = Some(DefaultScreenRatio)
    /\ color_square_size_dropdown' = Some(DefaultSquareRatio)
    /\ show_labels_radio' = Some(DefaultShowLabels)
    /\ RunCallback(version_dropdown', color_space_dropdown', screen_ratio_dropdown',
                   show_labels_radio', color_square_size_dropdown')
    /\ Fixed

\* The page shows a figure; Fresh: and the last callback run returned, so that the
\* figure is the one it returned.
\*
\* The widget events are followed from the Fresh states.  From a state whose last
\* callback raised, the reload of the page is followed and further widget events
\* are not: they lead either to another state whose callback raised, or, once no
\* widget is cleared any more, to the Fresh state of the resulting widget values,
\* which is reached without the detour as well.
Loaded == pc = "serving" /\ figure # None
Fresh == Loaded /\ callback_error = "none"

ChangeVersion(v) ==
    /\ Fresh
    /\ Some(v) # version_dropdown
    /\ version_dropdown' = Some(v)
    /\ UNCHANGED <<color_space_dropdown, screen_ratio_dropdown,
                   color_square_size_dropdown, show_labels_radio>>
    /\ RunCallback(version_dropdown', color_space_dropdown, screen_ratio_dropdown,
                   show_labels_radio, color_square_size_dropdown)
    /\ Fixed

ChangeColorSpace(cs) ==
    /\ Fresh
    /\ Some(cs) # color_space_dropdown
    /\ color_space_dropdown' = Some(cs)
    /\ UNCHANGED <<version_dropdown, screen_ratio_dropdown,
                   color_square_size_dropdown, show_labels_radio>>
    /\ RunCallback(version_dropdown, color_space_dropdown', screen_ratio_dropdown,
                   show_labels_radio, color_square_size_dropdown)
    /\ Fixed

ChangeScreenRatio(k) ==
    /\ Fresh
    /\ Some(k) # screen_ratio_dropdown
    /\ screen_ratio_dropdown' = Some(k)
    /\ UNCHANGED <<version_dropdown, color_space_dropdown,
                   color_square_size_dropdown, show_labels_radio>>
    /\ RunCallback(version_dropdown, color_space_dropdown, screen_ratio_dropdown',
                   show_labels_radio, color_square_size_dropdown)
    /\ Fixed

ChangeSquareSize(k) ==
    /\ Fresh
    /\ Some(k) # color_square_size_dropdown
    /\ color_square_size_dropdown' = Some(k)
    /\ UNCHANGED <<version_dropdown, color_space_dropdown,
                   screen_ratio_dropdown, show_labels_radio>>
    /\ RunCallback(version_dropdown, color_space_dropdown, screen_ratio_dropdown,
                   show_labels_radio, color_square_size_dropdown')
    /\ Fixed

ChangeShowLabels(b) ==
    /\ Fresh
    /\ Some(b) # show_labels_radio
    /\ show_labels_radio' = Some(b)
    /\ UNCHANGED <<version_dropdown, color_space_dropdown,
                   screen_ratio_dropdown, color_square_size_dropdown>>
    /\ RunCallback(version_dropdown, color_space_dropdown, screen_ratio_dropdown,
                   show_labels_radio', color_square_size_dropdown)
    /\ Fixed

\* The dropdowns are built without clearable=False (lines 107-165), so each shows the
\* clear button, which sets its value to None and fires the callback.
ClearVersion ==
    /\ Fresh
    /\ version_dropdown # None
    /\ version_dropdown' = None
    /\ UNCHANGED <<color_space_dropdown, screen_ratio_dropdown,
                   color_square_size_dropdown, show_labels_radio>>
    /\ RunCallback(version_dropdown', color_space_dropdown, screen_ratio_dropdown,
                   show_labels_radio, color_square_size_dropdown)
    /\ Fixed

ClearColorSpace ==
    /\ Fresh
    /\ color_space_dropdown # None
    /\ color_space_dropdown' = None
    /\ UNCHANGED <<version_dropdown, screen_ratio_dropdown,
                   color_square_size_dropdown, show_labels_radio>>
    /\ RunCallback(version_dropdown, color_space_dropdown', screen_ratio_dropdown,
                   show_labels_radio, color_square_size_dropdown)
    /\ Fixed

ClearScreenRatio ==
    /\ Fresh
    /\ screen_ratio_dropdown # None
    /\ screen_ratio_dropdown' = None
    /\ UNCHANGED <<version_dropdown, color_space_dropdown,
                   color_square_size_dropdown, show_labels_radio>>
    /\ RunCallback(version_dropdown, color_space_dropdown, screen_ratio_dropdown',
                   show_labels_radio, color_square_size_dropdown)
    /\ Fixed

ClearSquareSize ==
    /\ Fresh
    /\ color_square_size_dropdown # None
    /\ color_square_size_dropdown' = None
    /\ UNCHANGED <<version_dropdown, color_space_dropdown,
                   screen_ratio_dropdown, show_labels_radio>>
    /\ RunCallback(version_dropdown, color_space_dropdown, screen_ratio_dropdown,
                   show_labels_radio, color_square_size_dropdown')
    /\ Fixed

(***************************************************************************)
(* Specifications.                                                         *)
(***************************************************************************)
Unset ==
    /\ pc = "query_screen"
    /\ error = None
    /\ screen_width = 0 /\ screen_height = 0
    /\ df = None
    /\ colorchecker_versions = <<>> /\ color_spaces = <<>>
    /\ data = <<>>
    /\ x = <<>> /\ y = <<>>
    /\ version_dropdown = None /\ color_space_dropdown = None
    /\ screen_ratio_dropdown = None /\ color_square_size_dropdown = None
    /\ show_labels_radio = None
    /\ figure = None
    /\ callback_error = "none"

\* The sheet the script expects: blocks end at row 62 + 24 and column 62 + 3.
FullRows == start_rows[3] - 1 + BlockRows
FullCols == col_start_indices[NumColorSpaces] + 3
WellFormed(seed) == Sheet(FullRows, FullCols, seed, None)
Laptop == Monitor(1366, 768)

StartUp ==
    \/ QueryScreen
    \/ CheckFile
    \/ ReadExcel
    \/ IndexTable
    \/ GridPositions
    \/ Layout

\* Spec: the whole program on one screen and one well-formed workbook, and on the
\* three environments in which start-up crashes.
Envs ==
    { <<<<Laptop>>, Some(WellFormed(0))>>,
      <<<<>>, Some(WellFormed(0))>>,
      <<<<Laptop>>, None>>,
      <<<<Laptop>>, Some(Sheet(59, FullCols, 0, None))>> }

Init ==
    /\ Unset
    /\ \E env \in Envs : monitors = env[1] /\ file = env[2]

Next ==
    \/ StartUp
    \/ PageLoad
    \/ \E v \in Range(colorchecker_versions) : ChangeVersion(v)
    \/ \E cs \in Range(color_spaces) : ChangeColorSpace(cs)
    \/ \E k \in RatioOptions : ChangeScreenRatio(k)
    \/ \E k \in RatioOptions : ChangeSquareSize(k)
    \/ \E b \in BOOLEAN : ChangeShowLabels(b)
    \/ ClearVersion
    \/ ClearColorSpace
    \/ ClearScreenRatio
    \/ ClearSquareSize

Spec == Init /\ [][Next]_vars

\* SpecStartup: the start-up script alone, over a family of monitors and workbooks.
RowCounts == {59, 60, 61, 70, 85, FullRows, 100}
ColCounts == {62, 63, 64, FullCols, 70}
BadCells == {None, <<4, 8, 256>>, <<85, 64, 300>>}
Sheets ==
    {Sheet(nr, nc, s, b) : nr \in RowCounts, nc \in ColCounts, s \in 0..MaxSeed, b \in BadCells}
StartupMonitors == {<<>>, <<Laptop>>, <<Monitor(1920, 1080), Laptop>>}

InitStartup ==
    /\ Unset
    /\ monitors \in StartupMonitors
    /\ file \in {None} \cup {Some(s) : s \in Sheets}

SpecStartup == InitStartup /\ [][StartUp]_vars

\* SpecSheets: the Figure Builder over the Color Tables of several workbooks; the
\* version, the colour space and the label flag vary.
SessionSheets ==
    {WellFormed(s) : s \in 0..MaxSeed}
        \cup {Sheet(70, FullCols, 0, None), Sheet(61, FullCols, 1, None),
              Sheet(FullRows, 64, 0, None), Sheet(FullRows, FullCols, 0, <<4, 8, 256>>)}

InitSheets ==
    /\ Unset
    /\ monitors = <<Laptop>>
    /\ file \in {Some(s) : s \in SessionSheets}

NextSheets ==
    \/ StartUp
    \/ PageLoad
    \/ \E v \in Range(colorchecker_versions) : ChangeVersion(v)
    \/ \E cs \in Range(color_spaces) : ChangeColorSpace(cs)
    \/ \E b \in BOOLEAN : ChangeShowLabels(b)

SpecSheets == InitSheets /\ [][NextSheets]_vars

\* SpecScreens: the Figure Builder over screen sizes; the display ratio varies.
ScreenSpan == 9
Screens ==
    {Monitor(1366, 768), Monitor(1440, 900), Monitor(1920, 1080), Monitor(2560, 1440),
     Monitor(1536, 864), Monitor(1280, 720), Monitor(3840, 2160)}
        \cup {Monitor(1360 + i, 760 + i) : i \in 0..ScreenSpan}

InitScreens ==
    /\ Unset
    /\ monitors \in {<<m>> : m \in Screens}
    /\ file = Some(WellFormed(0))

NextScreens ==
    \/ StartUp
    \/ PageLoad
    \/ \E k \in RatioOptions : ChangeScreenRatio(k)

SpecScreens == InitScreens /\ [][NextScreens]_vars

(***************************************************************************)
(* Claims.                                                                 *)
(***************************************************************************)
Indexed == pc \in {"grid", "layout", "serving"}
GridDone == pc \in {"layout", "serving"}

\* C2: Grid Layout maps the swatch indices 0..23 to pairwise distinct (column, row)
\* positions with column in 0..5 and row in 0..3, column = index mod 6 and
\* row = 3 - (index div 6); index 0 is at (0,3) and index 23 at (5,0).
C2_GridLayout ==
    GridDone =>
        /\ Len(x) = 24 /\ Len(y) = 24
        /\ \A i \in 0..23 :
            /\ x[i + 1] = i % 6 /\ y[i + 1] = 3 - (i \div 6)
            /\ x[i + 1] \in 0..5 /\ y[i + 1] \in 0..3
        /\ \A i, j \in 0..23 : i # j => <<x[i + 1], y[i + 1]>> # <<x[j + 1], y[j + 1]>>
        /\ <<x[1], y[1]>> = <<0, 3>>
        /\ <<x[24], y[24]>> = <<5, 0>>

C2_Witness == pc = "layout" /\ Len(x) = 24 /\ x[1] = 0 /\ y[1] = 3

MissingFileOutcome ==
    /\ pc \in {"query_screen", "check_file", "crashed"}
    /\ df = None /\ data = <<>>
    /\ pc = "crashed" =>
           error = Some([type |-> "FileNotFoundError",
                         message |-> "Excel file 'ColorChecker_RGB_and_spectra.xlsx' not found. Please place it in the project directory."])

RoundHalfEven(num, den) ==
    LET q == num \div den
        r == num % den
    IN  IF 2 * r < den THEN q
        ELSE IF 2 * r > den THEN q + 1
        ELSE IF q % 2 = 0 THEN q ELSE q + 1

Abs(n) == IF n < 0 THEN 0 - n ELSE n
Max(a, b) == IF a > b THEN a ELSE b

\* C8 as stated: with display ratio 0.6 the canvas width of the produced scene is
\* round(screen_width * 0.6), for every screen width.
C8_AsStated ==
    (Fresh /\ screen_ratio_dropdown = Some(6)) =>
        figure[1].layout.width = RoundHalfEven(screen_width * 6, 10)

\* C8 amended: with display ratio 0.6 the canvas width is int(screen_width * 0.6),
\* the product truncated to an integer, which is floor(6 * screen_width / 10); it is
\* round(screen_width * 0.6) only when the fractional part is below one half.
C8_Truncated ==
    (Fresh /\ screen_ratio_dropdown = Some(6)) =>
        /\ figure[1].layout.width = (screen_width * 6) \div 10
        /\ (screen_width * 6) % 10 < 5
               => figure[1].layout.width = RoundHalfEven(screen_width * 6, 10)

C8_Witness ==
    /\ Fresh /\ screen_ratio_dropdown = Some(6)
    /\ (screen_width * 6) % 10 >= 5
    /\ figure[1].layout.width = (screen_width * 6) \div 10

\* A step in which only the display ratio changes, between two callback runs that
\* returned.
RatioOnlyStep ==
    /\ Fresh /\ callback_error' = "none"
    /\ screen_ratio_dropdown # None /\ screen_ratio_dropdown' # None
    /\ screen_ratio_dropdown' # screen_ratio_dropdown
    /\ UNCHANGED <<version_dropdown, color_space_dropdown,
                   color_square_size_dropdown, show_labels_radio>>

\* C7 as stated: two Figure Builder calls whose inputs differ only in the display
\* ratio (r1, r2 from 10%..100%) have the same marker colours and selection, and
\* canvas sizes proportional to the ratio: width(r1) * r2 = width(r2) * r1, likewise
\* the height.  (Ratios in tenths; the equation is the same.)
C7_AsStated ==
    [][RatioOnlyStep =>
        /\ figure'[1].marker.color = figure[1].marker.color
        /\ figure[1].layout.width * screen_ratio_dropdown'[1]
               = figure'[1].layout.width * screen_ratio_dropdown[1]
        /\ figure[1].layout.height * screen_ratio_dropdown'[1]
               = figure'[1].layout.height * screen_ratio_dropdown[1]]_vars

\* C7 amended: the marker colours and the selection are unchanged, and the canvas
\* sizes, being int(screen * ratio), are proportional up to the truncation:
\* |width(r1) * r2 - width(r2) * r1| <= max(r1, r2), likewise the height.  (In
\* tenths k1, k2 the bound reads |width(k1) * k2 - width(k2) * k1| <= max(k1, k2).)
C7_UpToTruncation ==
    [][RatioOnlyStep =>
        /\ figure'[1].marker.color = figure[1].marker.color
        /\ Abs(figure[1].layout.width * screen_ratio_dropdown'[1]
                   - figure'[1].layout.width * screen_ratio_dropdown[1])
               <= Max(screen_ratio_dropdown[1], screen_ratio_dropdown'[1])
        /\ Abs(figure[1].layout.height * screen_ratio_dropdown'[1]
                   - figure'[1].layout.height * screen_ratio_dropdown[1])
               <= Max(screen_ratio_dropdown[1], screen_ratio_dropdown'[1])]_vars

C7_Witness ==
    /\ Fresh
    /\ screen_ratio_dropdown = Some(7)
    /\ figure[1].layout.width * 10 # screen_width * 7
    /\ figure[1].layout.width = IntOfProduct(screen_width, 7)

\* The block of the Color Table the widgets select.
Selected == data[version_dropdown[1]][color_space_dropdown[1]]

\* The texts the claims name, written out for a triple.
RgbText(t) == "rgb(" \o ToString(t[1]) \o "," \o ToString(t[2]) \o "," \o ToString(t[3]) \o ")"
LabelText(t) == ToString(t[1]) \o " " \o ToString(t[2]) \o " " \o ToString(t[3])

LabelOnlyStep ==
    /\ Fresh /\ callback_error' = "none"
    /\ show_labels_radio' # show_labels_radio
    /\ UNCHANGED <<version_dropdown, color_space_dropdown,
                   screen_ratio_dropdown, color_square_size_dropdown>>

\* C6: two Figure Builder calls whose inputs differ only in the label-visibility
\* flag give scenes that differ only in the presence of the text labels: marker
\* colours, positions and size and the canvas width and height are identical.
C6_LabelFlagOnly ==
    [][LabelOnlyStep =>
        /\ figure'[1].marker = figure[1].marker
        /\ figure'[1].x = figure[1].x /\ figure'[1].y = figure[1].y
        /\ figure'[1].layout = figure[1].layout
        /\ [figure'[1] EXCEPT !.text = None, !.mode = "markers"]
               = [figure[1] EXCEPT !.text = None, !.mode = "markers"]
        /\ (figure'[1].text # None) = show_labels_radio'[1]
        /\ (figure[1].text # None) = show_labels_radio[1]]_vars

C6_Witness ==
    /\ Fresh
    /\ show_labels_radio = Some(FALSE)
    /\ color_square_size_dropdown = Some(9)
    /\ figure[1].text = None
    /\ figure[1].marker.size = 360

\* C9: after any sequence of selector-change events the Color Table and the Grid
\* Positions are the values computed at start-up (no event and no Figure Builder
\* call changes them), so a Figure Builder call returns the scene its inputs
\* determine, whenever in the session it is made: a call repeated on unchanged
\* inputs returns the scene already displayed.
C9_TablesFixed ==
    [][/\ pc = "layout" =>
            /\ data' = TableIndexer(df[1], colorchecker_versions, color_spaces)
            /\ x' = GridX /\ y' = GridY
       /\ pc = "serving" =>
            /\ data' = data /\ x' = x /\ y' = y
            /\ UNCHANGED <<colorchecker_versions, color_spaces,
                           screen_width, screen_height, df>>
            /\ (/\ Fresh /\ callback_error' = "none"
                /\ UNCHANGED <<version_dropdown, color_space_dropdown,
                               screen_ratio_dropdown, color_square_size_dropdown,
                               show_labels_radio>>)
                   => figure' = figure]_vars

C9_Witness ==
    /\ Fresh
    /\ version_dropdown = Some(colorchecker_versions[2])
    /\ color_space_dropdown = Some(color_spaces[7])
    /\ screen_ratio_dropdown = Some(3)
    /\ data = TableIndexer(df[1], colorchecker_versions, color_spaces)
    /\ x = GridX /\ y = GridY

\* C1: after every selector-change event the displayed scene is the Figure
\* Builder's result for the current View State, each widget's value reaching its
\* own parameter (label toggle: labels present; swatch-size selector: marker size;
\* display-ratio selector: canvas size).
C1_SceneFollowsView ==
    Loaded =>
        /\ callback_error = "none"
        /\ figure = create_figure(version_dropdown, color_space_dropdown,
                                  screen_ratio_dropdown, show_labels_radio,
                                  color_square_size_dropdown).figure

\* What does hold of the wiring: whenever the callback returned, the scene is the
\* Figure Builder's result for the widgets' values, each at its own parameter.
SceneFollowsViewWhenReturned ==
    Fresh =>
        /\ figure = create_figure(version_dropdown, color_space_dropdown,
                                  screen_ratio_dropdown, show_labels_radio,
                                  color_square_size_dropdown).figure
        /\ (figure[1].text # None) = show_labels_radio[1]
        /\ figure[1].marker.size = 40 * color_square_size_dropdown[1]
        /\ figure[1].layout.width = IntOfProduct(screen_width, screen_ratio_dropdown[1])

\* C4: in every View State reachable from the defaults by selector changes the
\* selected (version, colour space) pair is a key of the Color Table, so the Figure
\* Builder's lookup never fails with a lookup error.
C4_SelectionIsKey ==
    Loaded =>
        /\ HasKey(version_dropdown, color_space_dropdown)
        /\ callback_error # "KeyError"

====
